---- MODULE Spec2Model ----
(***************************************************************************)
(* A model of ts_cpp: the triplet Structure (an 8-way inverted index of    *)
(* ternary facts) and the backtracking Solver that enumerates assignments  *)
(* of nodes to variables against it.                                       *)
(*                                                                         *)
(* Conventions.  A Triplet is a tuple <<a, b, c>>; position j of the C++   *)
(* array (j = 0, 1, 2) is element j + 1 of the tuple.  A std::vector is a  *)
(* sequence; element i of the vector (i = 0, 1, ...) is element i + 1 of   *)
(* the sequence, and every index the program stores (var_to_constraints_,  *)
(* may_equal_, current_index_) keeps its C++ value.  Nodes are > 0,        *)
(* variables are <= 0, and 0 is also the empty node of a lookup pattern.   *)
(***************************************************************************)
EXTENDS Integers, Sequences, FiniteSets, TLC

\* ------------------------------------------------------------------ bounds
\* Nodes are 1..MaxNode.
MaxNode == 2
\* The Structure holds at most MaxFacts facts at a time.
MaxFacts == 3
\* At most MaxOps AddFact/RemoveFact calls are made on a Structure.
MaxOps == 3
\* A Solver has 1..MaxVars variables.
MaxVars == 2
\* A Solver is given at most MaxConstraints constraints.
MaxConstraints == 2
\* At most MaxEmptyReturns calls of NextAssignment that return empty.
MaxEmptyReturns == 2

Nodes == 1..MaxNode
Facts == Nodes \X Nodes \X Nodes
\* A lookup pattern: every position is a node or the empty node 0.
Patterns == (0..MaxNode) \X (0..MaxNode) \X (0..MaxNode)

VARIABLES
  facts_,               \* Structure::facts_: key -> vector of facts
  stored,               \* the facts added and not removed since (call history)
  ops,                  \* the AddFact/RemoveFact calls made, oldest first
  constraints,          \* the constraints argument of the Solver constructor
  n_variables_,         \* Solver::n_variables_
  valid_,               \* Solver::valid_
  constraints_,         \* Solver::constraints_
  working_constraints_, \* Solver::working_constraints_
  var_to_constraints_,  \* Solver::var_to_constraints_
  may_equal_,           \* Solver::may_equal_
  assignment_,          \* Solver::assignment_
  states_,              \* Solver::states_: [options, options_it] per level
  current_index_,       \* Solver::current_index_
  pc,                   \* "none": no Solver; "idle", "loop": where
                        \* NextAssignment stands; "aborted": after abort()
  returns               \* what the calls of NextAssignment returned, oldest first

structVars == <<facts_, stored, ops>>
solverVars == <<constraints, n_variables_, valid_, constraints_,
                working_constraints_, var_to_constraints_, may_equal_,
                assignment_, states_, current_index_, pc, returns>>
vars == <<facts_, stored, ops, constraints, n_variables_, valid_, constraints_,
          working_constraints_, var_to_constraints_, may_equal_,
          assignment_, states_, current_index_, pc, returns>>

\* ------------------------------------------------------------- Structure
\* Bit j of the mask i: (i >> j) & 0b1.
MaskBit(i, j) == (i \div (2 ^ j)) % 2

\* The key AddFact and RemoveFact build for mask i: position j keeps the
\* fact's node when bit j of i is set and is the empty node otherwise.
MaskKey(fact, i) ==
  <<IF MaskBit(i, 0) = 1 THEN fact[1] ELSE 0,
    IF MaskBit(i, 1) = 1 THEN fact[2] ELSE 0,
    IF MaskBit(i, 2) = 1 THEN fact[3] ELSE 0>>

\* facts_[key] of std::unordered_map: a missing key is inserted with an
\* empty vector and that vector is the value.
Touch(m, key) ==
  IF key \in DOMAIN m THEN m ELSE [x \in DOMAIN m \cup {key} |->
                                     IF x = key THEN <<>> ELSE m[x]]

\* Structure::IsTrue.
IsTrueIn(m, fact) == fact \in DOMAIN m /\ m[fact] # <<>>
IsTrue(fact) == IsTrueIn(facts_, fact)

\* Structure::Lookup: the bucket of the key, or empty_ when the key is not in
\* the map.
LookupIn(m, fact) == IF fact \in DOMAIN m THEN m[fact] ELSE <<>>
Lookup(fact) == LookupIn(facts_, fact)

\* Structure::AllTrue.
AllTrue(facts) == \A n \in 1..Len(facts) : IsTrue(facts[n])

\* AddFactFrom with the loop stopping one mask early (i < 7): the fully-keyed
\* bucket is never written.
RECURSIVE AddFactFromShort(_, _, _)
AddFactFromShort(m, fact, i) ==
  IF i >= 7 THEN m
  ELSE LET key == MaskKey(fact, i)
           t   == Touch(m, key)
       IN  AddFactFromShort([t EXCEPT ![key] = Append(t[key], fact)], fact, i + 1)

\* The loop of AddFact from mask i on: push the fact on the bucket of each key.
RECURSIVE AddFactFrom(_, _, _)
AddFactFrom(m, fact, i) ==
  IF i = 8 THEN m
  ELSE LET key == MaskKey(fact, i)
           t   == Touch(m, key)
       IN  AddFactFrom([t EXCEPT ![key] = Append(t[key], fact)], fact, i + 1)

\* std::find: the first index of fact in the vector, 0 for end().
Find(vec, fact) ==
  IF \E n \in 1..Len(vec) : vec[n] = fact
  THEN CHOOSE n \in 1..Len(vec) :
         vec[n] = fact /\ \A k \in 1..(n - 1) : vec[k] # fact
  ELSE 0

\* Erase that removes the last element instead of the one found.
EraseBack(vec, n) == SubSeq(vec, 1, Len(vec) - 1)

\* std::vector::erase of the element at index n.
Erase(vec, n) == SubSeq(vec, 1, n - 1) \o SubSeq(vec, n + 1, Len(vec))

\* RemoveFactFrom with the loop starting at mask 1: the all-empty bucket
\* (0,0,0) is never cleaned.
RECURSIVE RemoveFactFromOne(_, _, _)
RemoveFactFromOne(m, fact, i) ==
  IF i = 8 THEN m
  ELSE LET key == MaskKey(fact, i)
           t   == Touch(m, key)
           it  == Find(t[key], fact)
       IN  IF it = 0 \/ i = 0 THEN RemoveFactFromOne(t, fact, i + 1)
           ELSE RemoveFactFromOne([t EXCEPT ![key] = Erase(t[key], it)], fact, i + 1)

\* The loop of RemoveFact from mask i on: erase the first occurrence of the
\* fact from the bucket of each key.  (The bucket holds the fact whenever the
\* guard of RemoveFact held, so the assertion on it never fires.)
RECURSIVE RemoveFactFrom(_, _, _)
RemoveFactFrom(m, fact, i) ==
  IF i = 8 THEN m
  ELSE LET key == MaskKey(fact, i)
           t   == Touch(m, key)
           it  == Find(t[key], fact)
       IN  IF it = 0 THEN RemoveFactFrom(t, fact, i + 1)
           ELSE RemoveFactFrom([t EXCEPT ![key] = Erase(t[key], it)], fact, i + 1)

\* No Solver has been constructed.
NoSolver ==
  /\ constraints = <<>>
  /\ n_variables_ = 0
  /\ valid_ = FALSE
  /\ constraints_ = <<>>
  /\ working_constraints_ = <<>>
  /\ var_to_constraints_ = <<>>
  /\ may_equal_ = <<>>
  /\ assignment_ = <<>>
  /\ states_ = <<>>
  /\ current_index_ = 0
  /\ pc = "none"
  /\ returns = <<>>

\* A default-constructed Structure.
InitStructure ==
  /\ facts_ = <<>>
  /\ stored = {}
  /\ ops = <<>>
  /\ NoSolver

\* Structure::AddFact(fact), called with its precondition: the fact is not
\* stored.
AddFact(fact) ==
  /\ Len(ops) < MaxOps
  /\ Cardinality(stored) < MaxFacts
  /\ ~IsTrue(fact)
  /\ facts_' = AddFactFrom(facts_, fact, 0)
  /\ stored' = stored \cup {fact}
  /\ ops' = Append(ops, <<"add", fact>>)
  /\ UNCHANGED solverVars

\* Structure::RemoveFact(fact), called with its precondition: the fact is
\* stored.
RemoveFact(fact) ==
  /\ Len(ops) < MaxOps
  /\ IsTrue(fact)
  /\ facts_' = RemoveFactFrom(facts_, fact, 0)
  /\ stored' = stored \ {fact}
  /\ ops' = Append(ops, <<"remove", fact>>)
  /\ UNCHANGED solverVars

NextStructure ==
  \/ \E fact \in Facts : AddFact(fact)
  \/ \E fact \in Facts : RemoveFact(fact)

SpecStructure == InitStructure /\ [][NextStructure]_vars

\* ------------------------------------- Structure, calls outside the contract
\* AddFactOn with the assertion compiled out: the loop runs whether or not the
\* fact is stored.
AddFactUnasserted(m, fact) ==
  [aborted |-> FALSE, facts |-> AddFactFrom(m, fact, 0)]

\* Structure::AddFact on the map m, whatever m holds: assert(!IsTrue(fact))
\* aborts the process before the loop, otherwise the loop runs.
AddFactOn(m, fact) ==
  IF IsTrueIn(m, fact) THEN [aborted |-> TRUE, facts |-> m]
  ELSE [aborted |-> FALSE, facts |-> AddFactFrom(m, fact, 0)]

\* Structure::RemoveFact on the map m, whatever m holds: assert(IsTrue(fact))
\* aborts the process before the loop, otherwise the loop runs.
RemoveFactOn(m, fact) ==
  IF ~IsTrueIn(m, fact) THEN [aborted |-> TRUE, facts |-> m]
  ELSE [aborted |-> FALSE, facts |-> RemoveFactFrom(m, fact, 0)]

\* The members of the Solver and the results: everything but the Structure
\* and pc.
solverMembers == <<constraints, n_variables_, valid_, constraints_,
                   working_constraints_, var_to_constraints_, may_equal_,
                   assignment_, states_, current_index_, returns>>

\* A call of AddFact(fact) on any Structure.  pc = "aborted" is the process
\* after abort(): nothing runs any more.
AddFactCall(fact) ==
  /\ Len(ops) < MaxOps
  /\ Cardinality(stored) < MaxFacts \/ fact \in stored
  /\ \E r \in {AddFactOn(facts_, fact)} :
       /\ facts_' = r.facts
       /\ stored' = IF r.aborted THEN stored ELSE stored \cup {fact}
       /\ pc' = IF r.aborted THEN "aborted" ELSE pc
  /\ ops' = Append(ops, <<"add", fact>>)
  /\ UNCHANGED solverMembers

\* A call of RemoveFact(fact) on any Structure.
RemoveFactCall(fact) ==
  /\ Len(ops) < MaxOps
  /\ \E r \in {RemoveFactOn(facts_, fact)} :
       /\ facts_' = r.facts
       /\ stored' = IF r.aborted THEN stored ELSE stored \ {fact}
       /\ pc' = IF r.aborted THEN "aborted" ELSE pc
  /\ ops' = Append(ops, <<"remove", fact>>)
  /\ UNCHANGED solverMembers

NextStructureContract ==
  /\ pc = "none"
  /\ \/ \E fact \in Facts : AddFactCall(fact)
     \/ \E fact \in Facts : RemoveFactCall(fact)

SpecStructureContract == InitStructure /\ [][NextStructureContract]_vars

\* ---------------------------------------------------------------- Solver
\* Solver::IsVariable.
IsVariable(node) == node <= 0

\* The order of a set that iterates from the largest node down.
BeforeGreater(a, b) == a > b

\* The order of std::set<Node>: std::less.
Before(a, b) == a < b

\* The past-the-end position of an options set.
End == MaxNode + 1

\* std::set::begin(): the first element in the set's order, or end().
Begin(options) ==
  IF options = {} THEN End
  ELSE CHOOSE x \in options : \A y \in options : y = x \/ Before(x, y)

\* Increment that wraps around: after the last element comes the first.
IncrementWrap(options, it) ==
  IF {x \in options : Before(it, x)} = {} THEN Begin(options)
  ELSE Begin({x \in options : Before(it, x)})

\* Increment that leaves the iterator where it is.
IncrementStay(options, it) == it

\* options_it++: the element after it in the set's order, or end().
Increment(options, it) == Begin({x \in options : Before(it, x)})

\* Solver::State(): no options, the iterator at end().  (states_ holds copies
\* of one State, whose iterators point into the original's set; a level's
\* iterator is read only after GetOptions has set it.)
State0 == [options |-> {}, options_it |-> End]

\* The inner loop of the constructor from position j on: every variable
\* position of the constraint pushes the constraint's index on the variable's
\* list.
RECURSIVE PushVariables(_, _, _, _)
PushVariables(v2c, constraint, j, index) ==
  IF j = 3 THEN v2c
  ELSE IF IsVariable(constraint[j + 1])
       THEN PushVariables(
              [v2c EXCEPT ![-constraint[j + 1] + 1] = Append(@, index)],
              constraint, j + 1, index)
       ELSE PushVariables(v2c, constraint, j + 1, index)

\* ConstructorLoop that skips a ground constraint without looking it up.
RECURSIVE ConstructorLoopUnchecked(_, _, _, _)
ConstructorLoopUnchecked(cs, constraint_i, v2c, kept) ==
  IF constraint_i >= Len(cs)
  THEN [valid |-> TRUE, var_to_constraints |-> v2c, constraints |-> kept]
  ELSE LET constraint == cs[constraint_i + 1]
           any_variables == \E j \in 1..3 : IsVariable(constraint[j])
       IN  IF any_variables
           THEN ConstructorLoopUnchecked(cs, constraint_i + 1,
                                PushVariables(v2c, constraint, 0, Len(kept)),
                                Append(kept, constraint))
           ELSE ConstructorLoopUnchecked(cs, constraint_i + 1, v2c, kept)

\* The outer loop of the constructor from constraint_i on.  A constraint with
\* a variable is kept; a ground one that is not a fact clears valid_ and ends
\* the loop.
RECURSIVE ConstructorLoop(_, _, _, _)
ConstructorLoop(cs, constraint_i, v2c, kept) ==
  IF constraint_i >= Len(cs)
  THEN [valid |-> TRUE, var_to_constraints |-> v2c, constraints |-> kept]
  ELSE LET constraint == cs[constraint_i + 1]
           any_variables == \E j \in 1..3 : IsVariable(constraint[j])
       IN  IF any_variables
           THEN ConstructorLoop(cs, constraint_i + 1,
                                PushVariables(v2c, constraint, 0, Len(kept)),
                                Append(kept, constraint))
           ELSE IF ~IsTrue(constraint)
                THEN [valid |-> FALSE, var_to_constraints |-> v2c,
                      constraints |-> kept]
                ELSE ConstructorLoop(cs, constraint_i + 1, v2c, kept)

\* ChoiceFrom without the break after a disagreement: choice is cleared and
\* the scan goes on, so a later pinned position sets it again.
RECURSIVE ChoiceFromNoBreak(_, _, _, _)
ChoiceFromNoBreak(triplet, hole_is_var, j, choice) ==
  IF j = 3 THEN choice
  ELSE IF ~hole_is_var[j + 1]
       THEN ChoiceFromNoBreak(triplet, hole_is_var, j + 1, choice)
  ELSE IF choice = 0
       THEN ChoiceFromNoBreak(triplet, hole_is_var, j + 1, triplet[j + 1])
  ELSE IF choice # triplet[j + 1]
       THEN ChoiceFromNoBreak(triplet, hole_is_var, j + 1, 0)
  ELSE ChoiceFromNoBreak(triplet, hole_is_var, j + 1, choice)

\* The scan of one matching fact in GetOptions from position j on: the node
\* the fact gives the variable, 0 when the pinned positions disagree.
RECURSIVE ChoiceFrom(_, _, _, _)
ChoiceFrom(triplet, hole_is_var, j, choice) ==
  IF j = 3 THEN choice
  ELSE IF ~hole_is_var[j + 1] THEN ChoiceFrom(triplet, hole_is_var, j + 1, choice)
  ELSE IF choice = 0
       THEN ChoiceFrom(triplet, hole_is_var, j + 1, triplet[j + 1])
  ELSE IF choice # triplet[j + 1] THEN 0
  ELSE ChoiceFrom(triplet, hole_is_var, j + 1, choice)

\* LocalOptions that does not intersect with options: every positive choice
\* is kept.
LocalOptionsAll(working, var, options, initialized_options) ==
  LET hole_is_var == <<working[1] = var, working[2] = var, working[3] = var>>
      emptied == <<IF IsVariable(working[1]) THEN 0 ELSE working[1],
                   IF IsVariable(working[2]) THEN 0 ELSE working[2],
                   IF IsVariable(working[3]) THEN 0 ELSE working[3]>>
      found == Lookup(emptied)
      choices == {ChoiceFrom(found[n], hole_is_var, 0, 0) : n \in 1..Len(found)}
  IN  {choice \in choices : choice > 0}

\* LocalOptions that keeps a choice of 0 (choice >= 0).
LocalOptionsZero(working, var, options, initialized_options) ==
  LET hole_is_var == <<working[1] = var, working[2] = var, working[3] = var>>
      emptied == <<IF IsVariable(working[1]) THEN 0 ELSE working[1],
                   IF IsVariable(working[2]) THEN 0 ELSE working[2],
                   IF IsVariable(working[3]) THEN 0 ELSE working[3]>>
      found == Lookup(emptied)
      choices == {ChoiceFrom(found[n], hole_is_var, 0, 0) : n \in 1..Len(found)}
  IN  {choice \in choices :
         choice >= 0 /\ (~initialized_options \/ choice \in options)}

\* Steps (1) and (2) of GetOptions for one working constraint: the choices of
\* the facts that match the emptied constraint, kept when positive and, once
\* options is initialized, when options has them.
LocalOptions(working, var, options, initialized_options) ==
  LET hole_is_var == <<working[1] = var, working[2] = var, working[3] = var>>
      emptied == <<IF IsVariable(working[1]) THEN 0 ELSE working[1],
                   IF IsVariable(working[2]) THEN 0 ELSE working[2],
                   IF IsVariable(working[3]) THEN 0 ELSE working[3]>>
      found == Lookup(emptied)
      choices == {ChoiceFrom(found[n], hole_is_var, 0, 0) : n \in 1..Len(found)}
  IN  {choice \in choices :
         choice > 0 /\ (~initialized_options \/ choice \in options)}

\* OptionsLoop that never sets initialized_options: options ends as the local
\* options of the last constraint alone.
RECURSIVE OptionsLoopUninitialized(_, _, _, _, _, _)
OptionsLoopUninitialized(working, var, list, n, options, initialized_options) ==
  IF n >= Len(list) THEN options
  ELSE LET local_options ==
             LocalOptions(working[list[n + 1] + 1], var, options, FALSE)
       IN  IF local_options = {} THEN {}
           ELSE OptionsLoopUninitialized(working, var, list, n + 1,
                                         local_options, FALSE)

\* The loop of GetOptions over var_to_constraints_[current_index_] from its
\* element n on: options becomes the local options of each constraint in
\* turn, and the loop ends when options is empty.
RECURSIVE OptionsLoop(_, _, _, _, _, _)
OptionsLoop(working, var, list, n, options, initialized_options) ==
  IF n >= Len(list) THEN options
  ELSE LET local_options ==
             LocalOptions(working[list[n + 1] + 1], var, options,
                          initialized_options)
       IN  IF local_options = {} THEN {}
           ELSE OptionsLoop(working, var, list, n + 1, local_options, TRUE)

\* Taken with the may_equal test inverted.
TakenInverted(self, assignment, current_index) ==
  {assignment[i + 1] : i \in {i \in 0..(current_index - 1) :
                                 i \in self.may_equal[current_index + 1]}}

\* Step (3) of GetOptions: the nodes of the variables before current_index
\* that the variable may not equal.
Taken(self, assignment, current_index) ==
  {assignment[i + 1] : i \in {i \in 0..(current_index - 1) :
                                 i \notin self.may_equal[current_index + 1]}}

\* The end of GetOptions: the level's options are set and its iterator is put
\* at their begin().
Positioned(s, k, options) ==
  [s EXCEPT !.states[k + 1] = [options |-> options, options_it |-> Begin(options)]]

\* GetOptions that gives a variable of no constraint every node as options.
GetOptionsUniverse(self, s) ==
  IF s.current_index >= self.n_variables \/ s.current_index < 0 THEN s
  ELSE LET k == s.current_index
           options == (IF self.var_to_constraints[k + 1] = <<>> THEN Nodes
                       ELSE OptionsLoop(s.working, -k,
                                        self.var_to_constraints[k + 1], 0,
                                        s.states[k + 1].options, FALSE))
                      \ Taken(self, s.assignment, k)
       IN  Positioned(s, k, options)

\* Solver::GetOptions on the search state s of the Solver self.
GetOptions(self, s) ==
  IF s.current_index >= self.n_variables \/ s.current_index < 0 THEN s
  ELSE LET k == s.current_index
           options == OptionsLoop(s.working, -k, self.var_to_constraints[k + 1],
                                  0, s.states[k + 1].options, FALSE)
                      \ Taken(self, s.assignment, k)
       IN  Positioned(s, k, options)

\* The constraints var_to_constraints_[index] names (as sequence positions).
Mentioning(self, index) ==
  {self.var_to_constraints[index + 1][n] + 1 :
     n \in 1..Len(self.var_to_constraints[index + 1])}

\* Assign that does not store the node in assignment_.
AssignUnstored(self, s, to) ==
  LET var == -s.current_index
  IN  [s EXCEPT
        !.working = [i \in 1..Len(s.working) |->
                       IF i \in Mentioning(self, s.current_index)
                       THEN <<IF s.working[i][1] = var THEN to ELSE s.working[i][1],
                              IF s.working[i][2] = var THEN to ELSE s.working[i][2],
                              IF s.working[i][3] = var THEN to ELSE s.working[i][3]>>
                       ELSE s.working[i]],
        !.current_index = s.current_index + 1]

\* Solver::Assign(to) on the search state s of the Solver self.
Assign(self, s, to) ==
  LET var == -s.current_index
  IN  [s EXCEPT
        !.assignment[s.current_index + 1] = to,
        !.working = [i \in 1..Len(s.working) |->
                       IF i \in Mentioning(self, s.current_index)
                       THEN <<IF s.working[i][1] = var THEN to ELSE s.working[i][1],
                              IF s.working[i][2] = var THEN to ELSE s.working[i][2],
                              IF s.working[i][3] = var THEN to ELSE s.working[i][3]>>
                       ELSE s.working[i]],
        !.current_index = s.current_index + 1]

\* Restored that tests the working copy for var instead of the reference
\* copy: an assigned position no longer holds var and is never restored.
RestoredWorking(reference, working, var) ==
  <<IF working[1] = var THEN reference[1] ELSE working[1],
    IF working[2] = var THEN reference[2] ELSE working[2],
    IF working[3] = var THEN reference[3] ELSE working[3]>>

\* The loop of UnAssign over the positions of one constraint: a position where
\* the reference constraint holds var gets the reference value back.
Restored(reference, working, var) ==
  <<IF reference[1] = var THEN reference[1] ELSE working[1],
    IF reference[2] = var THEN reference[2] ELSE working[2],
    IF reference[3] = var THEN reference[3] ELSE working[3]>>

\* Solver::UnAssign() on the search state s of the Solver self.
UnAssign(self, s) ==
  LET index == s.current_index - 1
  IN  IF index < 0 THEN [s EXCEPT !.current_index = index]
      ELSE [s EXCEPT
             !.working = [i \in 1..Len(s.working) |->
                            IF i \in Mentioning(self, index)
                            THEN Restored(self.constraints[i], s.working[i], -index)
                            ELSE s.working[i]],
             !.current_index = index]

\* The members of the Solver that are set by the constructor and read by the
\* search.
Self ==
  [n_variables |-> n_variables_, constraints |-> constraints_,
   var_to_constraints |-> var_to_constraints_, may_equal |-> may_equal_]

\* The members of the Solver that the search changes.
Search ==
  [assignment |-> assignment_, working |-> working_constraints_,
   states |-> states_, current_index |-> current_index_]

\* The search state after the step is `next`.
SetSearch(next) ==
  \E s \in {next} :
    /\ assignment_' = s.assignment
    /\ working_constraints_' = s.working
    /\ states_' = s.states
    /\ current_index_' = s.current_index

\* The inputs of the constructor: a position of a constraint is a node or one
\* of the variables 0, -1, ..., -(n - 1); maybe_equal[k] holds indices below k.
Positions(n) == (-(n - 1))..MaxNode
Triplets(n) == Positions(n) \X Positions(n) \X Positions(n)
ConstraintLists(n) ==
  UNION {[1..len -> Triplets(n)] : len \in 0..MaxConstraints}
MayEquals(n) ==
  {me \in [1..n -> SUBSET (0..(n - 1))] : \A k \in 1..n : me[k] \subseteq 0..(k - 2)}

\* Lexicographic order of tuples of integers of the same length.
LexLess(a, b) ==
  \E n \in 1..Len(a) : a[n] < b[n] /\ \A k \in 1..(n - 1) : a[k] = b[k]

\* The facts of a Structure in the order they were added: up to MaxFacts
\* different facts, added in increasing order.
RECURSIVE AddAll(_, _, _)
AddAll(m, facts, n) ==
  IF n > Len(facts) THEN m ELSE AddAll(AddFactFrom(m, facts[n], 0), facts, n + 1)
FactLists ==
  {fs \in UNION {[1..len -> Facts] : len \in 0..MaxFacts} :
     \A a, b \in 1..Len(fs) : a < b => LexLess(fs[a], fs[b])}

\* A Structure built by adding the facts of some list of FactLists; no Solver
\* is constructed yet.
Init ==
  /\ \E fs \in FactLists :
       /\ facts_ = AddAll(<<>>, fs, 1)
       /\ stored = {fs[a] : a \in 1..Len(fs)}
       /\ ops = [a \in 1..Len(fs) |-> <<"add", fs[a]>>]
  /\ NoSolver

\* Solver::Solver(structure, n, cs, me): the loop over the constraints, then
\* GetOptions on level 0 when the Solver is valid.
Constructor(n, cs, me) ==
  /\ pc = "none"
  /\ UNCHANGED structVars
  /\ constraints' = cs
  /\ n_variables_' = n
  /\ may_equal_' = me
  /\ \E built \in {ConstructorLoop(cs, 0, [k \in 1..n |-> <<>>], <<>>)} :
       LET self == [n_variables |-> n, constraints |-> built.constraints,
                    var_to_constraints |-> built.var_to_constraints,
                    may_equal |-> me]
           s == [assignment |-> [k \in 1..n |-> 0],
                 working |-> IF built.valid THEN built.constraints ELSE <<>>,
                 states |-> [k \in 1..n |-> State0],
                 current_index |-> 0]
       IN  /\ valid_' = built.valid
           /\ constraints_' = built.constraints
           /\ var_to_constraints_' = built.var_to_constraints
           /\ SetSearch(IF built.valid THEN GetOptions(self, s) ELSE s)
  /\ pc' = "idle"
  /\ returns' = <<>>

EmptyReturns == Cardinality({n \in 1..Len(returns) : returns[n] = <<>>})

fixedVars == <<facts_, stored, ops, constraints, n_variables_, constraints_,
               var_to_constraints_, may_equal_>>

\* NextAssignment is called: an invalid Solver returns empty, a valid one
\* enters the loop.
NextAssignmentCall ==
  /\ pc = "idle"
  /\ EmptyReturns < MaxEmptyReturns
  /\ IF ~valid_ \/ n_variables_ = 0
     THEN /\ returns' = Append(returns, <<>>)
          /\ pc' = pc
     ELSE /\ pc' = "loop"
          /\ returns' = returns
  /\ UNCHANGED <<valid_, assignment_, working_constraints_, states_,
                 current_index_>>
  /\ UNCHANGED fixedVars

\* NextAssignmentBacktrack whose UnAssign has the two copies swapped in its
\* assignment (constraints_[i][j] = working_constraints_[i][j]): the
\* reference copy takes the assigned node.
NextAssignmentBacktrackSwapped ==
  /\ pc = "loop"
  /\ current_index_ >= 0
  /\ states_[current_index_ + 1].options_it = End
  /\ current_index_' = current_index_ - 1
  /\ constraints_' =
       IF current_index_ - 1 < 0 THEN constraints_
       ELSE [i \in 1..Len(constraints_) |->
               IF i \in Mentioning(Self, current_index_ - 1)
               THEN [j \in 1..3 |->
                       IF constraints_[i][j] = -(current_index_ - 1)
                       THEN working_constraints_[i][j]
                       ELSE constraints_[i][j]]
               ELSE constraints_[i]]
  /\ UNCHANGED <<valid_, pc, returns, assignment_, working_constraints_,
                 states_>>
  /\ UNCHANGED <<facts_, stored, ops, constraints, n_variables_,
                 var_to_constraints_, may_equal_>>

\* An iteration of the loop at a level with no option left: backtrack.
NextAssignmentBacktrack ==
  /\ pc = "loop"
  /\ current_index_ >= 0
  /\ states_[current_index_ + 1].options_it = End
  /\ SetSearch(UnAssign(Self, Search))
  /\ UNCHANGED <<valid_, pc, returns>>
  /\ UNCHANGED fixedVars

\* An iteration of the loop at a level with an option left: assign it, step
\* the level's iterator, and either return the complete assignment (after
\* UnAssign) or initialize the next level.
NextAssignmentDescend ==
  /\ pc = "loop"
  /\ current_index_ >= 0
  /\ states_[current_index_ + 1].options_it # End
  /\ LET state == states_[current_index_ + 1]
         a == Assign(Self, Search, state.options_it)
         b == [a EXCEPT !.states[current_index_ + 1].options_it =
                          Increment(state.options, state.options_it)]
     IN  IF b.current_index = n_variables_
         THEN /\ SetSearch(UnAssign(Self, b))
              /\ returns' = Append(returns, b.assignment)
              /\ pc' = "idle"
         ELSE /\ SetSearch(GetOptions(Self, b))
              /\ returns' = returns
              /\ pc' = pc
  /\ UNCHANGED valid_
  /\ UNCHANGED fixedVars

\* NextAssignmentExit that leaves valid_ as it is.
NextAssignmentExitValid ==
  /\ pc = "loop"
  /\ current_index_ < 0
  /\ returns' = Append(returns, <<>>)
  /\ pc' = "idle"
  /\ UNCHANGED <<valid_, assignment_, working_constraints_, states_,
                 current_index_>>
  /\ UNCHANGED fixedVars

\* The loop ends below the root: the Solver is exhausted.
NextAssignmentExit ==
  /\ pc = "loop"
  /\ current_index_ < 0
  /\ valid_' = FALSE
  /\ returns' = Append(returns, <<>>)
  /\ pc' = "idle"
  /\ UNCHANGED <<assignment_, working_constraints_, states_, current_index_>>
  /\ UNCHANGED fixedVars

Next ==
  \/ /\ pc = "none"
     /\ \E n \in 1..MaxVars :
          \E cs \in ConstraintLists(n), me \in MayEquals(n) : Constructor(n, cs, me)
  \/ NextAssignmentCall
  \/ NextAssignmentBacktrack
  \/ NextAssignmentDescend
  \/ NextAssignmentExit

Spec == Init /\ [][Next]_vars

\* ------------------------------------------- Solver, called again and again
\* The Structure of a Solver that is called until it is exhausted holds at
\* most MaxFairFacts facts.
MaxFairFacts == 2

\* A Structure of at most MaxFairFacts facts; no Solver is constructed yet.
InitFair ==
  /\ \E fs \in {fs \in FactLists : Len(fs) <= MaxFairFacts} :
       /\ facts_ = AddAll(<<>>, fs, 1)
       /\ stored = {fs[a] : a \in 1..Len(fs)}
       /\ ops = [a \in 1..Len(fs) |-> <<"add", fs[a]>>]
  /\ NoSolver

\* A step of a caller that calls NextAssignment again and again: the call,
\* or an iteration of its loop, or its exit.
NextAssignmentStep ==
  \/ NextAssignmentCall
  \/ NextAssignmentBacktrack
  \/ NextAssignmentDescend
  \/ NextAssignmentExit

\* A call is under way, or the caller can call again.
Calling == pc = "loop" \/ (pc = "idle" /\ EmptyReturns < MaxEmptyReturns)

\* The code is sequential and does not block: a call that can take a step
\* takes it, and the caller goes on calling.  This is WF_vars(NextAssignmentStep)
\* with its ENABLED written out: a step of NextAssignmentStep is possible
\* exactly in the states of Calling, and every step from such a state is one.
Fairness == []<>(~Calling) \/ []<><<Calling>>_vars

SpecFair == InitFair /\ [][Next]_vars /\ Fairness

\* ---------------------------------- Solver, constructed outside the contract
\* The Structure of a Solver constructed on any arguments holds at most
\* MaxContractFacts facts.
MaxContractFacts == 1

\* var_to_constraints_.at(-constraint[i]) throws std::out_of_range for some
\* position of the constraint: a variable whose index is not below n.
OutOfRange(n, constraint) ==
  \E j \in 1..3 : IsVariable(constraint[j]) /\ -constraint[j] >= n

\* The outer loop of the constructor from constraint_i on, on any constraints:
\* as ConstructorLoop, and a constraint with a variable out of range throws
\* when the loop reaches it.
RECURSIVE ConstructorLoopOn(_, _, _, _, _)
ConstructorLoopOn(n, cs, constraint_i, v2c, kept) ==
  IF constraint_i >= Len(cs)
  THEN [aborted |-> FALSE, valid |-> TRUE, var_to_constraints |-> v2c,
        constraints |-> kept]
  ELSE LET constraint == cs[constraint_i + 1]
           any_variables == \E j \in 1..3 : IsVariable(constraint[j])
       IN  IF OutOfRange(n, constraint)
           THEN [aborted |-> TRUE, valid |-> TRUE, var_to_constraints |-> v2c,
                 constraints |-> kept]
           ELSE IF any_variables
           THEN ConstructorLoopOn(n, cs, constraint_i + 1,
                                  PushVariables(v2c, constraint, 0, Len(kept)),
                                  Append(kept, constraint))
           ELSE IF ~IsTrue(constraint)
                THEN [aborted |-> FALSE, valid |-> FALSE,
                      var_to_constraints |-> v2c, constraints |-> kept]
                ELSE ConstructorLoopOn(n, cs, constraint_i + 1, v2c, kept)

\* The body of the constructor up to the end of its loop, on any arguments:
\* assert(n_variables > 0) aborts, and so does the exception of the loop.
\* maybe_equal is copied to may_equal_ and not looked at.
ConstructorOn(n, cs) ==
  IF n = 0
  THEN [aborted |-> TRUE, valid |-> TRUE, var_to_constraints |-> <<>>,
        constraints |-> <<>>]
  ELSE ConstructorLoopOn(n, cs, 0, [k \in 1..n |-> <<>>], <<>>)

\* The arguments a caller may pass: a variable one beyond the last, and any
\* indices below n in maybe_equal.
WidePositions(n) == (-n)..MaxNode
WideTriplets(n) == WidePositions(n) \X WidePositions(n) \X WidePositions(n)
WideConstraintLists(n) ==
  UNION {[1..len -> WideTriplets(n)] : len \in 0..MaxConstraints}
WideMayEquals(n) == [1..n -> SUBSET (0..(n - 1))]

\* A Structure of at most MaxContractFacts facts; no Solver is constructed
\* yet.
InitContract ==
  /\ \E fs \in {fs \in FactLists : Len(fs) <= MaxContractFacts} :
       /\ facts_ = AddAll(<<>>, fs, 1)
       /\ stored = {fs[a] : a \in 1..Len(fs)}
       /\ ops = [a \in 1..Len(fs) |-> <<"add", fs[a]>>]
  /\ NoSolver

\* Solver::Solver(structure, n, cs, me) on any arguments.  The member
\* initializers run first, so n_variables_ and may_equal_ hold the arguments
\* also when the body aborts.
ConstructorCall(n, cs, me) ==
  /\ pc = "none"
  /\ UNCHANGED structVars
  /\ constraints' = cs
  /\ n_variables_' = n
  /\ may_equal_' = me
  /\ \E built \in {ConstructorOn(n, cs)} :
       LET self == [n_variables |-> n, constraints |-> built.constraints,
                    var_to_constraints |-> built.var_to_constraints,
                    may_equal |-> me]
           s == [assignment |-> [k \in 1..n |-> 0],
                 working |-> IF built.valid THEN built.constraints ELSE <<>>,
                 states |-> [k \in 1..n |-> State0],
                 current_index |-> 0]
       IN  IF built.aborted
           THEN /\ pc' = "aborted"
                /\ UNCHANGED <<valid_, constraints_, var_to_constraints_,
                               working_constraints_, assignment_, states_,
                               current_index_>>
           ELSE /\ pc' = "idle"
                /\ valid_' = built.valid
                /\ constraints_' = built.constraints
                /\ var_to_constraints_' = built.var_to_constraints
                /\ SetSearch(IF built.valid THEN GetOptions(self, s) ELSE s)
  /\ returns' = <<>>

NextContract ==
  \/ /\ pc = "none"
     /\ \E n \in 0..MaxVars :
          \E cs \in WideConstraintLists(n), me \in WideMayEquals(n) :
            ConstructorCall(n, cs, me)
  \/ NextAssignmentCall
  \/ NextAssignmentBacktrack
  \/ NextAssignmentDescend
  \/ NextAssignmentExit

SpecContract == InitContract /\ [][NextContract]_vars

\* ------------------------------------------------- claims on the Structure
InVec(vec, x) == \E n \in 1..Len(vec) : vec[n] = x
Matches(p, f) == \A j \in 1..3 : p[j] = 0 \/ p[j] = f[j]
LastOp == ops[Len(ops)]

\* C4: after any sequence of AddFact/RemoveFact calls that respect their
\* preconditions, Lookup(p) of a pattern p (each position 0 or a node) contains
\* exactly the stored facts that agree with p on every position p fixes.
C4_LookupCorrect ==
  \A p \in Patterns :
    {Lookup(p)[n] : n \in 1..Len(Lookup(p))} = {f \in stored : Matches(p, f)}

\* Of two facts that a partial pattern matches, the first added has been
\* removed: the lookup of the pattern gives the other one alone.
C4_Witness ==
  /\ Len(ops) = 3
  /\ ops[1][1] = "add"
  /\ LastOp = <<"remove", ops[1][2]>>
  /\ \E p \in Patterns :
       /\ \E j \in 1..3 : p[j] = 0
       /\ \E j \in 1..3 : p[j] # 0
       /\ Matches(p, LastOp[2])
       /\ \E f \in stored : Lookup(p) = <<f>>

\* C5: a stored fact is in each of the 8 buckets keyed by zeroing its
\* positions independently, a fact that is not stored is in no bucket, and
\* IsTrue(f) holds exactly when f is in the fully-keyed bucket of f.
C5_BucketInvariant ==
  /\ \A f \in stored : \A i \in 0..7 : InVec(Lookup(MaskKey(f, i)), f)
  /\ \A key \in DOMAIN facts_ :
       \A n \in 1..Len(facts_[key]) : facts_[key][n] \in stored
  /\ \A f \in Facts : IsTrue(f) <=> InVec(Lookup(f), f)

\* One fact is stored, another was stored and has been removed: its buckets
\* are still keys of the map.
C5_Witness ==
  /\ Cardinality(stored) = 1
  /\ Len(ops) >= 3
  /\ LastOp[1] = "remove"
  /\ LastOp[2] \in DOMAIN facts_
  /\ \E f \in stored : Lookup(<<0, 0, 0>>) = <<f>>

\* C6: AddFact(f) on a Structure without f followed by RemoveFact(f) leaves
\* IsTrue(f) false and f in Lookup(p) for no pattern p that matches f.
C6_RoundTrip ==
  (/\ Len(ops) >= 2
   /\ LastOp[1] = "remove"
   /\ ops[Len(ops) - 1] = <<"add", LastOp[2]>>)
  => /\ ~IsTrue(LastOp[2])
     /\ \A p \in Patterns : Matches(p, LastOp[2]) => ~InVec(Lookup(p), LastOp[2])

\* f was added to a Structure holding another fact and removed again.
C6_Witness ==
  /\ Len(ops) >= 3
  /\ LastOp[1] = "remove"
  /\ ops[Len(ops) - 1] = <<"add", LastOp[2]>>
  /\ stored # {}
  /\ Len(Lookup(<<0, 0, 0>>)) = Cardinality(stored)

\* No bucket holds a fact twice.
NoDuplicates ==
  \A key \in DOMAIN facts_ : \A a, b \in 1..Len(facts_[key]) :
    a # b => facts_[key][a] # facts_[key][b]

\* C11: AddFact(f) when f is stored and RemoveFact(f) when f is not stored
\* abort and leave every bucket as it was, so no bucket ever holds a fact
\* twice and a fact that is not stored is never partially removed.
C11_ContractAborts ==
  /\ [][\A f \in Facts :
          /\ (ops' = Append(ops, <<"add", f>>) /\ f \in stored)
               => pc' = "aborted" /\ facts_' = facts_
          /\ (ops' = Append(ops, <<"remove", f>>) /\ f \notin stored)
               => pc' = "aborted" /\ facts_' = facts_]_vars
  /\ [](NoDuplicates /\ (pc = "aborted" => C5_BucketInvariant))

\* AddFact was called on a fact that shares buckets with another stored fact
\* and is stored itself: the process aborted.
C11_Witness ==
  /\ pc = "aborted"
  /\ Len(ops) = 3
  /\ LastOp[1] = "add"
  /\ LastOp[2] \in stored
  /\ Cardinality(stored) = 2
  /\ \E f \in stored : f # LastOp[2] /\ f[1] = LastOp[2][1]

\* --------------------------------------------------- claims on the Solver
\* The non-empty results returned so far.
Returned == {n \in 1..Len(returns) : returns[n] # <<>>}

\* The triplet a constraint becomes when A[k] replaces variable -k.
Substituted(c, A) == [j \in 1..3 |-> IF c[j] <= 0 THEN A[-c[j] + 1] ELSE c[j]]

\* A satisfies every constraint given to the constructor.
Satisfies(A) ==
  \A n \in 1..Len(constraints) : Substituted(constraints[n], A) \in stored

\* A keeps apart the variables that may not be equal.
Distinct(A) ==
  \A k \in 0..(n_variables_ - 1) : \A j \in 0..(k - 1) :
    j \notin may_equal_[k + 1] => A[j + 1] # A[k + 1]

\* C1: every non-empty result A of NextAssignment makes every constraint
\* given to the constructor, parametric or ground, a stored fact once A[k]
\* replaces variable -k.
C1_Sound == \A n \in Returned : Satisfies(returns[n])

\* A result was returned for two variables under two constraints, one of
\* which pruned a node the other allowed.
C1_Witness ==
  /\ n_variables_ = 2
  /\ Len(constraints_) = 2
  /\ Returned # {}
  /\ \E A \in [1..2 -> Nodes] :
       /\ Substituted(constraints[1], A) \in stored
       /\ Substituted(constraints[2], A) \notin stored

\* C2: in every non-empty result A, A[j] # A[k] for all j < k with j not in
\* may_equal[k].
C2_Inequality == \A n \in Returned : Distinct(returns[n])

\* A result was returned although an assignment giving both variables the
\* same node satisfies the constraints: the filter removed it.
C2_Witness ==
  /\ n_variables_ = 2
  /\ may_equal_[2] = {}
  /\ Returned # {}
  /\ \E v \in Nodes : Satisfies(<<v, v>>)

\* The assignments that make every constraint a fact and keep apart the
\* variables that may not be equal.
Solutions ==
  {A \in [1..n_variables_ -> Nodes] : Satisfies(A) /\ Distinct(A)}

\* A call of NextAssignment has returned empty.
Exhausted == \E n \in 1..Len(returns) : returns[n] = <<>>

\* C3: calling NextAssignment until it returns empty yields every assignment
\* that makes all constraints facts and meets the may_equal requirement, and
\* none twice.
C3_Complete ==
  (pc = "idle" /\ Exhausted)
  => /\ {returns[n] : n \in Returned} = Solutions
     /\ \A a, b \in Returned : a # b => returns[a] # returns[b]

\* Some ground constraint given to the constructor is not a stored fact.
GroundFails ==
  \E n \in 1..Len(constraints) :
    /\ \A j \in 1..3 : constraints[n][j] > 0
    /\ constraints[n] \notin stored

\* C7: right after construction IsValid() is false exactly when some ground
\* constraint of the input is not a fact, and then every call of
\* NextAssignment returns empty, whatever the other constraints are and
\* wherever the ground constraint is in the list.
C7_GroundInfeasible ==
  /\ (pc = "idle" /\ returns = <<>>) => (~valid_ <=> GroundFails)
  /\ GroundFails => pc # "loop" /\ Returned = {}

\* Two calls returned empty although the first constraint alone has a
\* solution: the ground constraint that is no fact comes second.
C7_Witness ==
  /\ Len(constraints) = 2
  /\ \E j \in 1..3 : constraints[1][j] <= 0
  /\ \A j \in 1..3 : constraints[2][j] > 0
  /\ constraints[2] \notin stored
  /\ \E A \in [1..n_variables_ -> Nodes] : Substituted(constraints[1], A) \in stored
  /\ Len(returns) = 2

\* C8: once a call of NextAssignment has returned empty, IsValid() is false
\* and every later call returns empty and leaves current_index, assignment,
\* working_constraints and states as they are.
C8_ExhaustionPermanent ==
  /\ [](Exhausted => ~valid_ /\ pc = "idle")
  /\ [][Exhausted =>
         /\ returns' = Append(returns, <<>>)
         /\ UNCHANGED <<current_index_, assignment_, working_constraints_,
                        states_>>]_vars

\* A Solver returned a result, then empty, and was called once more.
C8_Witness ==
  /\ Len(returns) = 3
  /\ returns[1] # <<>>
  /\ returns[2] = <<>>
  /\ returns[3] = <<>>
  /\ current_index_ = -1

\* C9: a result of NextAssignment is empty or has exactly N entries, all
\* positive nodes, entry k being the node assigned to variable index k.
C9_ResultShape ==
  /\ \A n \in Returned :
       /\ Len(returns[n]) = n_variables_
       /\ \A k \in 1..n_variables_ : returns[n][k] > 0
  /\ (pc = "idle" /\ Len(returns) \in Returned)
       => returns[Len(returns)] = assignment_

\* A result for two variables was returned from facts whose pinned
\* positions disagree for some constraint.
C9_Witness ==
  /\ n_variables_ = 2
  /\ pc = "idle"
  /\ Len(returns) \in Returned
  /\ returns[Len(returns)][1] # returns[Len(returns)][2]
  /\ \E n \in 1..Len(constraints_) : \E f \in stored :
       /\ constraints_[n][1] = constraints_[n][3]
       /\ constraints_[n][1] <= 0
       /\ f[1] # f[3]

\* C10: the non-empty results come in strictly increasing lexicographic
\* order of (A[0], ..., A[N-1]), and which result comes k-th is fixed by the
\* facts and the instance: every solution below a returned one was returned
\* before it.
C10_LexOrder ==
  /\ \A a, b \in Returned : a < b => LexLess(returns[a], returns[b])
  /\ \A b \in Returned : \A A \in Solutions :
       LexLess(A, returns[b]) => \E a \in Returned : a < b /\ returns[a] = A

\* Three results were returned, the first two differing in the last
\* variable only and the third in the first variable.
C10_Witness ==
  /\ n_variables_ = 2
  /\ Cardinality(Returned) = 3
  /\ returns[1][1] = returns[2][1]
  /\ returns[2][1] # returns[3][1]

\* --------------------------------- claims on contracts, frame and search
\* The arguments of the constructor are outside its contract: no variable,
\* a constraint position naming a variable that is not one of 0, ..., N - 1,
\* or a may_equal[k] holding an index that is not below k.
ContractViolated ==
  \/ n_variables_ = 0
  \/ \E n \in 1..Len(constraints) : OutOfRange(n_variables_, constraints[n])
  \/ \E k \in 0..(n_variables_ - 1) : \E j \in may_equal_[k + 1] : j >= k

\* C12: a Solver constructed with N = 0, with a constraint position that
\* names a variable outside 0, -1, ..., -(N-1), or with a may_equal[k] that
\* holds an index j >= k aborts; no such Solver exists to enumerate
\* assignments.
C12_SolverContractAborts ==
  (pc # "none" /\ ContractViolated) => pc = "aborted"

\* The members and the Structure that the claim lists as left unchanged.
Borrowed == <<facts_, stored, n_variables_, constraints_, var_to_constraints_,
              may_equal_>>

\* C13 as stated: a step of a NextAssignment call changes working_constraints,
\* assignment, states and current_index only; the Structure, the reference
\* constraints, var_to_constraints, may_equal and the validity flag stay.
C13_FrameOnly ==
  [][(pc = "idle" \/ pc = "loop") => UNCHANGED <<Borrowed, valid_>>]_vars

\* C13, amended: a step of a NextAssignment call leaves the Structure, the
\* reference constraints, var_to_constraints and may_equal unchanged; beside
\* working_constraints, assignment, states and current_index it changes only
\* the validity flag, which the call that finds current_index below 0 clears
\* as it returns empty.
C13_Frame ==
  [][(pc = "idle" \/ pc = "loop") =>
       /\ UNCHANGED Borrowed
       /\ valid_' # valid_ =>
            /\ ~valid_'
            /\ current_index_ = -1
            /\ returns' = Append(returns, <<>>)
            /\ UNCHANGED <<working_constraints_, assignment_, states_,
                           current_index_>>]_vars

\* A Solver of two variables returned a result and then exhausted the
\* search: the working copy is the reference copy again and the flag is
\* cleared.
C13_Witness ==
  /\ pc = "idle"
  /\ n_variables_ = 2
  /\ Len(returns) = 2
  /\ returns[1] # <<>>
  /\ returns[2] = <<>>
  /\ ~valid_
  /\ Len(constraints_) = 2
  /\ working_constraints_ = constraints_

\* The nodes v for which some stored fact is the working constraint w with v
\* at every position of the variable var and any node at the positions of
\* other variables.
LocalSet(w, var) ==
  {v \in Nodes : \E f \in stored : \A j \in 1..3 :
     IF w[j] = var THEN f[j] = v ELSE w[j] <= 0 \/ f[j] = w[j]}

\* The domain of level k: the nodes in the local set of every constraint of
\* var_to_constraints[k], but for the nodes of the earlier variables that
\* variable k may not equal.
Domain(k) ==
  {v \in Nodes : \A i \in Mentioning(Self, k) :
     v \in LocalSet(working_constraints_[i], -k)}
  \ {assignment_[j + 1] : j \in {j \in 0..(k - 1) : j \notin may_equal_[k + 1]}}

\* options[current_index] is the domain of the level and the cursor is at
\* its smallest element (at the end when there is none).
DomainComputed ==
  LET state == states_[current_index_ + 1]
  IN  var_to_constraints_[current_index_ + 1] # <<>>
      => /\ state.options = Domain(current_index_)
         /\ \A v \in state.options : state.options_it <= v
         /\ state.options_it \in state.options \cup {End}
         /\ state.options = {} <=> state.options_it = End

\* C14: when GetOptions completes for level k = current_index (at the end of
\* the constructor of a valid Solver and after each descent that does not
\* return) with var_to_constraints[k] not empty, options[k] is the
\* intersection of the local-options sets of the constraints of
\* var_to_constraints[k] under the current working_constraints, minus
\* assignment[j] for every j < k not in may_equal[k], and the cursor of
\* level k is at the smallest element of options[k].
C14_DomainComputation ==
  [][((pc = "none" /\ valid_')
      \/ (pc = "loop" /\ pc' = "loop" /\ current_index_' = current_index_ + 1))
     => DomainComputed']_vars

\* GetOptions has just run for variable 1 under two constraints whose local
\* sets differ, and the inequality with variable 0 took a node of their
\* intersection away.
C14_Witness ==
  /\ pc = "loop"
  /\ n_variables_ = 2
  /\ current_index_ = 1
  /\ may_equal_[2] = {}
  /\ Len(var_to_constraints_[2]) = 2
  /\ var_to_constraints_[2][1] # var_to_constraints_[2][2]
  /\ LocalSet(working_constraints_[1], -1) # LocalSet(working_constraints_[2], -1)
  /\ assignment_[1] \in LocalSet(working_constraints_[1], -1)
                         \cap LocalSet(working_constraints_[2], -1)
  /\ states_[2].options = {}
  /\ states_[2].options_it = End

\* The positions of the working constraint w that hold the variable var.
Holes(w, var) == {j \in 1..3 : w[j] = var}

\* The stored facts that the lookup pattern of w matches: they agree with w
\* on every position where w holds a node.
Candidates(w) == {f \in stored : \A j \in 1..3 : w[j] <= 0 \/ f[j] = w[j]}

\* C15: for a working constraint that holds the current variable at more
\* than one position, a fact matching the lookup pattern gives a candidate
\* only if it has one node at all these positions, and then this node; a fact
\* whose pinned positions disagree gives nothing, wherever they disagree.  The
\* local options of the constraint are the candidates of the agreeing facts.
C15_Unification ==
  (current_index_ >= 0 /\ current_index_ < n_variables_)
  => \A i \in Mentioning(Self, current_index_) \cap 1..Len(working_constraints_) :
       LET w == working_constraints_[i]
           var == -current_index_
           hole_is_var == <<w[1] = var, w[2] = var, w[3] = var>>
           agreeing == {f \in Candidates(w) :
                          \A a, b \in Holes(w, var) : f[a] = f[b]}
       IN  Cardinality(Holes(w, var)) > 1
           => /\ \A f \in agreeing : \A j \in Holes(w, var) :
                   ChoiceFrom(f, hole_is_var, 0, 0) = f[j]
              /\ \A f \in Candidates(w) \ agreeing :
                   ChoiceFrom(f, hole_is_var, 0, 0) = 0
              /\ LocalOptions(w, var, {}, FALSE)
                   = {f[j] : f \in agreeing, j \in Holes(w, var)}

\* The constraint (0, 0, 0) of one variable met the facts (1, 1, 1), (1, 2, 2)
\* and (2, 1, 2): node 1 alone was returned.
C15_Witness ==
  /\ n_variables_ = 1
  /\ constraints_ = <<(<<0, 0, 0>>)>>
  /\ stored = {<<1, 1, 1>>, <<1, 2, 2>>, <<2, 1, 2>>}
  /\ returns = <<(<<1>>), <<>>>>

\* In the search state s every position of the working constraints where the
\* reference constraint holds a variable below s.current_index holds the node
\* assigned to it, and every other position holds what the reference holds.
WorkingCopy(s) ==
  \A i \in 1..Len(s.working) : \A j \in 1..3 :
    LET reference == constraints_[i][j]
    IN  IF reference <= 0 /\ -reference < s.current_index
        THEN s.working[i][j] = s.assignment[-reference + 1]
        ELSE s.working[i][j] = reference

\* C16: with current_index >= 0, after construction, after every Assign and
\* UnAssign and at every return of NextAssignment, a position of
\* working_constraints whose reference position holds a variable of index
\* < current_index holds assignment[index], one whose reference position
\* holds a variable of index >= current_index holds that variable, and a
\* node position holds its node.
C16_WorkingCopy ==
  current_index_ >= 0
  => /\ Len(working_constraints_) = 0
        \/ Len(working_constraints_) = Len(constraints_)
     /\ WorkingCopy(Search)
     /\ (pc = "loop" /\ states_[current_index_ + 1].options_it # End)
          => WorkingCopy(Assign(Self, Search,
                                states_[current_index_ + 1].options_it))

\* A result for two variables was returned: in a constraint that holds both,
\* the position of variable 0 holds its node and the position of variable 1
\* holds the variable again.
C16_Witness ==
  /\ pc = "idle"
  /\ n_variables_ = 2
  /\ current_index_ = 1
  /\ Len(returns) \in Returned
  /\ \E i \in 1..Len(constraints_) :
       /\ constraints_[i][1] = 0
       /\ constraints_[i][2] = -1
       /\ working_constraints_[i][1] = assignment_[1]
       /\ working_constraints_[i][2] = -1
       /\ assignment_[2] # assignment_[1]

\* The variable indices that no kept constraint mentions.
Unconstrained ==
  {k \in 0..(n_variables_ - 1) : var_to_constraints_[k + 1] = <<>>}

\* C17: when var_to_constraints[k] is empty for some k < N, options[k] is
\* empty whenever level k is entered (it is never anything else), and no call
\* of NextAssignment returns a non-empty assignment, also when assignments
\* exist that satisfy the constraints.
C17_Unconstrained ==
  (pc \in {"idle", "loop"} /\ Unconstrained # {})
  => /\ \A k \in Unconstrained : states_[k + 1].options = {}
     /\ Returned = {}

\* Variable 1 of two is in no constraint and the constraint of variable 0
\* has a solution: level 1 was entered for a node of variable 0 and the call
\* returned empty.
C17_Witness ==
  /\ n_variables_ = 2
  /\ Unconstrained = {1}
  /\ Solutions # {}
  /\ returns = <<(<<>>)>>
  /\ current_index_ = -1
  /\ assignment_[1] > 0

\* C18: at every quiescent point (after construction and between the calls
\* of NextAssignment), and at every iteration inside a call, assignment[k] > 0
\* for every k < current_index.
C18_AssignedPrefix ==
  pc \in {"idle", "loop"}
  => \A k \in 0..(current_index_ - 1) : assignment_[k + 1] > 0

\* Between the second and the third call of a Solver of two variables that
\* returned two results differing in variable 0.
C18_Witness ==
  /\ pc = "idle"
  /\ n_variables_ = 2
  /\ current_index_ = 1
  /\ Len(returns) = 2
  /\ Returned = {1, 2}
  /\ returns[1][1] # returns[2][1]
  /\ assignment_[1] = returns[2][1]

\* The options of level k that the cursor has not passed.
Remaining(k) ==
  Cardinality({x \in states_[k + 1].options : x >= states_[k + 1].options_it})

\* The remaining options of the levels k..current_index, read as the digits
\* of a number in base MaxNode + 1, level k first.
RECURSIVE RemainingFrom(_)
RemainingFrom(k) ==
  IF k > current_index_ \/ k >= n_variables_ THEN 0
  ELSE Remaining(k) * (MaxNode + 1) ^ (n_variables_ - 1 - k)
       + RemainingFrom(k + 1)

\* The work left to the search: the remaining options, then the depth.
Rank == RemainingFrom(0) * (n_variables_ + 2) + (current_index_ + 1)

JustPast(k, x) ==
  LET state == states_[k + 1]
  IN  /\ x \in state.options
      /\ state.options_it \in state.options \cup {End}
      /\ state.options_it > x
      /\ \A y \in state.options : ~(x < y /\ y < state.options_it)

====
